---- MODULE Spec2Model ----
(***************************************************************************)
(* Model of lib/sqlalchemy/engine/row.py (pure-Python BaseRow, Row,        *)
(* LegacyRow, ROMappingView, RowMapping and rowproxy_reconstructor).       *)
(*                                                                         *)
(* Python values are tagged records, so that values of different Python   *)
(* types can be compared with = and #.  A call's outcome is a record: the  *)
(* returned value, or the raised exception class with its argument, plus   *)
(* the warnings signalled on the way.                                      *)
(*                                                                         *)
(* The module imports BaseRow and the reconstructor from the C extension   *)
(* when it is installed; the definitions here are those of the ImportError *)
(* branches (lines 35-40 and 47-122).  The metadata object (_parent) is a  *)
(* collaborator outside row.py and is modelled from its contract.          *)
(***************************************************************************)
EXTENDS Integers, Sequences, FiniteSets

\* ------------------------------------------------------------------ bounds
MaxCols == 2

\* ------------------------------------------------------ program constants
MD_INDEX == 0

\* ----------------------------------------------------------- Python values
PyNone == [t |-> "None", i |-> 0, j |-> 0, s |-> ""]

PyInt(n) == [t |-> "int", i |-> n, j |-> 0, s |-> ""]

PyStr(x) == [t |-> "str", i |-> 0, j |-> 0, s |-> x]

\* a column-identity token (a column object used as a lookup key)
PyCol(x) == [t |-> "col", i |-> 0, j |-> 0, s |-> x]

\* slice(start, stop)
PySlice(a, b) == [t |-> "slice", i |-> a, j |-> b, s |-> ""]

\* ---------------------------------------------------------------- outcomes
NoWarn == {}

Ok(v) == [ok |-> TRUE, val |-> v, exc |-> "", arg |-> PyNone, warns |-> NoWarn]

Raise(e, a) == [ok |-> FALSE, val |-> PyNone, exc |-> e, arg |-> a, warns |-> NoWarn]

WithWarns(o, w) == [o EXCEPT !.warns = o.warns \cup w]

\* two outcomes are the same return value or the same exception
SameOutcome(o1, o2) ==
    /\ o1.ok = o2.ok
    /\ IF o1.ok THEN o1.val = o2.val ELSE o1.exc = o2.exc /\ o1.arg = o2.arg

Min(a, b) == IF a < b THEN a ELSE b

\* --------------------------------------------------------- tuple built-ins
\* tuple.__getitem__ with a slice: bounds are clamped, negatives count from
\* the end
SliceBound(n, b) ==
    LET c == IF b < 0 THEN b + n ELSE b
    IN  IF c < 0 THEN 0 ELSE IF c > n THEN n ELSE c

TupleSlice(data, key) ==
    LET lo == SliceBound(Len(data), key.i)
        hi == SliceBound(Len(data), key.j)
    IN  IF lo < hi THEN SubSeq(data, lo + 1, hi) ELSE <<>>

\* tuple.__getitem__: integers index (negative ones from the end), slices
\* select, anything else is a TypeError
TupleGetItem(data, key) ==
    IF key.t = "int"
    THEN LET n == Len(data)
             k == IF key.i < 0 THEN key.i + n ELSE key.i
         IN  IF k >= 0 /\ k < n THEN Ok(data[k + 1]) ELSE Raise("IndexError", key)
    ELSE IF key.t = "slice"
    THEN Ok(TupleSlice(data, key))
    ELSE Raise("TypeError", key)

\* hash(tuple): a deterministic fold over the elements
HashMod == 64

RECURSIVE HashFold(_, _, _)
HashFold(data, k, h) ==
    IF k > Len(data) THEN h
    ELSE HashFold(data, k + 1, (h * 31 + data[k].i + 1) % HashMod)

TupleHash(data) == HashFold(data, 1, 7)

\* value in tuple
TupleContains(data, v) == \E k \in 1..Len(data) : data[k] = v

\* tuple < tuple, lexicographically
RECURSIVE TupleLtFrom(_, _, _)
TupleLtFrom(a, b, k) ==
    IF k > Len(a) THEN k <= Len(b)
    ELSE IF k > Len(b) THEN FALSE
    ELSE IF a[k].i # b[k].i THEN a[k].i < b[k].i
    ELSE TupleLtFrom(a, b, k + 1)

TupleLt(a, b) == TupleLtFrom(a, b, 1)

\* ------------------------------------------- the metadata collaborator
\* (the result metadata object rows refer to as _parent; its code is not in
\* row.py: modelled from the collaborator contract)
Names == {"a", "b"}

Upper(c) == IF c = "a" THEN "A" ELSE IF c = "b" THEN "B" ELSE c

\* the column namings of a result: every sequence of names, duplicates too
ColumnLists == UNION {[1..n -> Names] : n \in 0..MaxCols}

Count(cols, c) == Cardinality({k \in 1..Len(cols) : cols[k] = c})

Position(cols, c) == CHOOSE k \in 1..Len(cols) : cols[k] = c

\* a resolution record: (position or None, literal lookup key)
NameRecord(cols, c) ==
    IF Count(cols, c) = 1
    THEN <<PyInt(Position(cols, c) - 1), PyStr(c)>>
    ELSE <<PyNone, PyStr(c)>>

\* style "null": a duplicated name is a null entry of keys;
\* style "named": keys keeps the duplicated name
MakeMetadata(cols, style) ==
    LET used == {cols[k] : k \in 1..Len(cols)}
        ints == {PyInt(k - 1) : k \in 1..Len(cols)}
        strs == {PyStr(c) : c \in used}
        objs == {PyCol(c) : c \in used}
    IN  [keys |-> [k \in 1..Len(cols) |->
                     IF Count(cols, cols[k]) > 1 /\ style = "null"
                     THEN PyNone ELSE PyStr(cols[k])],
         _keymap |-> [key \in ints \cup strs \cup objs |->
                     IF key.t = "int" THEN <<key, key>>
                     ELSE NameRecord(cols, key.s)],
         _fallback |-> [key \in {PyStr(Upper(c)) : c \in used} |->
                     NameRecord(cols, CHOOSE c \in used : Upper(c) = key.s)]]

Metadatas == {MakeMetadata(cols, style) : cols \in ColumnLists, style \in {"null", "named"}}

\* _parent.__key_fallback(key): the record of a key the key map lacks, or
\* the not-found failure
_key_fallback(parent, key) ==
    IF key \in DOMAIN parent._fallback
    THEN Ok(parent._fallback[key])
    ELSE Raise("KeyError", key)

\* _parent.__raise_for_ambiguous_column_name(rec): always fails, naming the
\* record's literal key
_raise_for_ambiguous_column_name(parent, rec) == Raise("AmbiguousColumnName", rec[2])

\* _parent.__warn_for_nonint(key): a non-fatal compatibility warning
_warn_for_nonint(parent, key) == {"nonint"}

\* _parent.__has_key(key)
_has_key(parent, key) ==
    key.t # "slice" /\ (key \in DOMAIN parent._keymap \/ _key_fallback(parent, key).ok)

\* _parent._contains(value, row): the legacy value-or-key test
_contains(parent, value, data) == _has_key(parent, value) \/ TupleContains(data, value)

\* ------------------------------------------------------------- BaseRow
Slots == {"_parent", "_data", "_keymap"}

Processors == {"None", "incr"}

\* proc(value) if proc else value
Convert(proc, value) == IF proc # "None" THEN PyInt(value.i + 1) ELSE value

\* cls.__new__(cls): an object none of whose slots is set
New(cls) ==
    [cls |-> cls, slots |-> {}, _parent |-> MakeMetadata(<<>>, "null"),
     _data |-> <<>>, _keymap |-> MakeMetadata(<<>>, "null")._keymap]

\* zip(processors, data) stops at the shorter of the two
BaseRow__init__(cls, parent, processors, keymap, data) ==
    [cls |-> cls, slots |-> Slots, _parent |-> parent,
     _data |-> [k \in 1..Min(Len(processors), Len(data)) |->
                  Convert(processors[k], data[k])],
     _keymap |-> keymap]

Row__getstate__(self) == [has |-> {"_parent", "_data"}, _parent |-> self._parent, _data |-> self._data]

\* __reduce__ naming the class Row instead of self.__class__
BaseRow__reduce__fixed_class(self) ==
    [func |-> "rowproxy_reconstructor", cls |-> "Row", state |-> Row__getstate__(self)]

BaseRow__reduce__(self) ==
    [func |-> "rowproxy_reconstructor", cls |-> self.cls, state |-> Row__getstate__(self)]

BaseRow__iter__(self) == self._data

_values_impl(self) == BaseRow__iter__(self)

BaseRow__len__(self) == Len(self._data)

BaseRow__hash__(self) == TupleHash(self._data)

\* self._keymap[key]: a slice is unhashable (TypeError), a missing key is a
\* KeyError
KeymapGetItem(keymap, key) ==
    IF key.t = "slice" THEN Raise("TypeError", key)
    ELSE IF key \in DOMAIN keymap THEN Ok(keymap[key])
    ELSE Raise("KeyError", key)

\* _subscript_impl without the test of the ambiguous sentinel
_subscript_impl_unchecked_sentinel(self, key, ismapping) ==
    LET look == KeymapGetItem(self._keymap, key)
        found == IF ~look.ok /\ look.exc = "KeyError"
                 THEN _key_fallback(self._parent, key)
                 ELSE look
    IN  IF ~look.ok /\ look.exc = "TypeError"
        THEN (IF key.t = "slice" THEN Ok(TupleSlice(self._data, key)) ELSE look)
        ELSE IF ~found.ok THEN found
        ELSE LET mdindex == found.val[MD_INDEX + 1]
             IN  WithWarns(TupleGetItem(self._data, mdindex),
                           IF ~ismapping /\ mdindex # key /\ key.t # "int"
                           THEN _warn_for_nonint(self._parent, key) ELSE NoWarn)

\* _subscript_impl warning only when the record's literal key is not the key
_subscript_impl_warn_on_literal_key(self, key, ismapping) ==
    LET look == KeymapGetItem(self._keymap, key)
        found == IF ~look.ok /\ look.exc = "KeyError"
                 THEN _key_fallback(self._parent, key)
                 ELSE look
    IN  IF ~look.ok /\ look.exc = "TypeError"
        THEN (IF key.t = "slice" THEN Ok(TupleSlice(self._data, key)) ELSE look)
        ELSE IF ~found.ok THEN found
        ELSE LET rec == found.val
                 mdindex == rec[MD_INDEX + 1]
             IN  IF mdindex = PyNone
                 THEN _raise_for_ambiguous_column_name(self._parent, rec)
                 ELSE WithWarns(TupleGetItem(self._data, mdindex),
                                IF ~ismapping /\ rec[2] # key /\ key.t # "int"
                                THEN _warn_for_nonint(self._parent, key) ELSE NoWarn)

_subscript_impl(self, key, ismapping) ==
    LET look == KeymapGetItem(self._keymap, key)
        found == IF ~look.ok /\ look.exc = "KeyError"
                 THEN _key_fallback(self._parent, key)
                 ELSE look
    IN  IF ~look.ok /\ look.exc = "TypeError"
        THEN (IF key.t = "slice" THEN Ok(TupleSlice(self._data, key)) ELSE look)
        ELSE IF ~found.ok THEN found
        ELSE LET rec == found.val
                 mdindex == rec[MD_INDEX + 1]
                 raised == IF mdindex = PyNone
                           THEN _raise_for_ambiguous_column_name(self._parent, rec)
                           ELSE Ok(PyNone)
                 warns == IF mdindex # PyNone /\ ~ismapping /\ mdindex # key /\ key.t # "int"
                          THEN _warn_for_nonint(self._parent, key)
                          ELSE NoWarn
             IN  IF ~raised.ok THEN raised
                 ELSE WithWarns(TupleGetItem(self._data, mdindex), warns)

_get_by_key_impl(self, key) == _subscript_impl(self, key, FALSE)

_get_by_key_impl_mapping(self, key) == _subscript_impl(self, key, TRUE)

\* a KeyError becomes AttributeError(e.args[0]); anything else propagates
BaseRow__getattr__(self, name) ==
    LET o == _get_by_key_impl_mapping(self, name)
    IN  IF ~o.ok /\ o.exc = "KeyError" THEN WithWarns(Raise("AttributeError", o.arg), o.warns) ELSE o

\* ---------------------------------------------------- list comprehensions
\* [k for k in keys if k is not None]
NotNone(keys) == SelectSeq(keys, LAMBDA k : k # PyNone)

WarnsUpTo(outs, n) == UNION {outs[k].warns : k \in 1..n}

\* [(key, self[key]) for key in keys], outs[k] being the outcome of
\* self[keys[k]]: the first lookup that raises ends the comprehension
Comprehension(keys, outs) ==
    IF \A k \in 1..Len(keys) : outs[k].ok
    THEN WithWarns(Ok([k \in 1..Len(keys) |-> <<keys[k], outs[k].val>>]),
                   WarnsUpTo(outs, Len(keys)))
    ELSE LET f == CHOOSE k \in 1..Len(keys) :
                      ~outs[k].ok /\ \A n \in 1..(k - 1) : outs[n].ok
         IN  [outs[f] EXCEPT !.warns = WarnsUpTo(outs, f)]

\* @util.deprecated / @util.deprecated_20: the call warns, then runs
deprecated(o) == WithWarns(o, {"deprecated"})

\* ------------------------------------------------------------------- Row
RowMapping__init__(row) == [row |-> row]

Row_mapping(self) == RowMapping__init__(self)

Row__contains__(self, key) == Ok(TupleContains(self._data, key))

Row__getitem__(self, key) == TupleGetItem(self._data, key)

\* __setstate__ assigning _data before _parent
Row__setstate__data_first(self, state) ==
    IF "_data" \notin state.has
    THEN [obj |-> self, out |-> Raise("KeyError", PyStr("_data"))]
    ELSE LET one == [self EXCEPT !._data = state._data, !.slots = @ \cup {"_data"}]
         IN  IF "_parent" \notin state.has
             THEN [obj |-> one, out |-> Raise("KeyError", PyStr("_parent"))]
             ELSE [obj |-> [one EXCEPT !._parent = state._parent,
                                       !._keymap = state._parent._keymap,
                                       !.slots = Slots],
                   out |-> Ok(PyNone)]

\* __setstate__ without the assignment of _keymap
Row__setstate__no_keymap(self, state) ==
    IF "_parent" \notin state.has
    THEN [obj |-> self, out |-> Raise("KeyError", PyStr("_parent"))]
    ELSE LET one == [self EXCEPT !._parent = state._parent,
                                 !.slots = @ \cup {"_parent"}]
         IN  IF "_data" \notin state.has
             THEN [obj |-> one, out |-> Raise("KeyError", PyStr("_data"))]
             ELSE [obj |-> [one EXCEPT !._data = state._data,
                                       !.slots = @ \cup {"_data"}],
                   out |-> Ok(PyNone)]

\* the slots are assigned in the order written: a state without "_data"
\* raises after _parent has been assigned
Row__setstate__(self, state) ==
    IF "_parent" \notin state.has
    THEN [obj |-> self, out |-> Raise("KeyError", PyStr("_parent"))]
    ELSE LET one == [self EXCEPT !._parent = state._parent,
                                 !.slots = @ \cup {"_parent"}]
         IN  IF "_data" \notin state.has
             THEN [obj |-> one, out |-> Raise("KeyError", PyStr("_data"))]
             ELSE [obj |-> [one EXCEPT !._data = state._data,
                                       !._keymap = state._parent._keymap,
                                       !.slots = Slots],
                   out |-> Ok(PyNone)]

\* the pure-Python reconstructor
rowproxy_reconstructor(cls, state) ==
    LET set == Row__setstate__(New(cls), state)
    IN  IF set.out.ok THEN Ok(set.obj) ELSE set.out

TupleCompare(op, a, b) ==
    CASE op = "eq" -> a = b
      [] op = "ne" -> a # b
      [] op = "lt" -> TupleLt(a, b)
      [] op = "le" -> TupleLt(a, b) \/ a = b
      [] op = "gt" -> TupleLt(b, a)
      [] op = "ge" -> TupleLt(b, a) \/ a = b

\* other is a Row (compared by its tuple) or a tuple
Row_op(self, other, op) ==
    IF other.isrow
    THEN Ok(TupleCompare(op, BaseRow__iter__(self), BaseRow__iter__(other.row)))
    ELSE Ok(TupleCompare(op, BaseRow__iter__(self), other.data))

\* keys() without the filter of the null names (as iterkeys iterates them)
Row_keys_unfiltered(self) == deprecated(Ok(self._parent.keys))

Row_keys(self) == deprecated(Ok(NotNone(self._parent.keys)))

Row_fields(self) == Ok(NotNone(self._parent.keys))

Row_replace(self) == Raise("NotImplementedError", PyNone)

Row_field_defaults(self) == Raise("NotImplementedError", PyNone)

\* ------------------------------------------------------------- LegacyRow
LegacyRow__contains__(self, key) == Ok(_contains(self._parent, key, self._data))

LegacyRow__getitem__(self, key) == _get_by_key_impl(self, key)

\* self[key] on a row: the method of the row's class
GetItem(self, key) ==
    IF self.cls = "LegacyRow" THEN LegacyRow__getitem__(self, key)
    ELSE Row__getitem__(self, key)

Contains(self, key) ==
    IF self.cls = "LegacyRow" THEN LegacyRow__contains__(self, key)
    ELSE Row__contains__(self, key)

LegacyRow_has_key(self, key) == deprecated(Ok(_has_key(self._parent, key)))

LegacyRow_items(self) ==
    LET ks == Row_keys(self)
    IN  deprecated(WithWarns(
            Comprehension(ks.val, [k \in 1..Len(ks.val) |-> GetItem(self, ks.val[k])]),
            ks.warns))

LegacyRow_iterkeys(self) == deprecated(Ok(self._parent.keys))

LegacyRow_itervalues(self) == deprecated(Ok(BaseRow__iter__(self)))

LegacyRow_values(self) == deprecated(Ok(_values_impl(self)))

\* --------------------------------------------------------- ROMappingView
ROMappingView__init__(mapping, items) == [_mapping |-> mapping, _items |-> items]

ROMappingView__len__(view) == Len(view._items)

ROMappingView__iter__(view) == view._items

ROMappingView__contains__(view, item) == \E k \in 1..Len(view._items) : view._items[k] = item

\* list(other) == list(self): the order counts
ROMappingView__eq__(view, other) == other = ROMappingView__iter__(view)

ROMappingView__ne__(view, other) == other # ROMappingView__iter__(view)

\* ------------------------------------------------------------ RowMapping
RowMapping__getitem__(m, key) == _get_by_key_impl_mapping(m.row, key)

RowMapping__iter__(m) == NotNone(m.row._parent.keys)

RowMapping__len__(m) == BaseRow__len__(m.row)

RowMapping__contains__(m, key) == _has_key(m.row._parent, key)

RowMapping_keys(m) == ROMappingView__init__(m, NotNone(m.row._parent.keys))

RowMapping_items(m) ==
    LET ks == ROMappingView__iter__(RowMapping_keys(m))
        o  == Comprehension(ks, [k \in 1..Len(ks) |-> RowMapping__getitem__(m, ks[k])])
    IN  IF o.ok THEN [o EXCEPT !.val = ROMappingView__init__(m, o.val)] ELSE o

RowMapping_values(m) == ROMappingView__init__(m, _values_impl(m.row))

\* dict(self._mapping): d[k] = mapping[k] for k in mapping.keys(), a later
\* entry for the same key replacing an earlier one
Row_asdict(self) ==
    LET m  == Row_mapping(self)
        ks == ROMappingView__iter__(RowMapping_keys(m))
        o  == Comprehension(ks, [k \in 1..Len(ks) |-> RowMapping__getitem__(m, ks[k])])
        last(key) == CHOOSE k \in 1..Len(ks) :
                         ks[k] = key /\ \A n \in (k + 1)..Len(ks) : ks[n] # key
    IN  IF o.ok
        THEN [o EXCEPT !.val = [key \in {ks[k] : k \in 1..Len(ks)} |-> o.val[last(key)][2]]]
        ELSE o

\* =========================================================== state machine
\* row:    the row object under observation (class "None": no row exists)
\* pc:     "idle", or "returned" while the caller holds the last call's result
\* result: the last call: its operation, its arguments and its outcome
VARIABLES row, pc, result

vars == <<row, pc, result>>

NoRow == New("None")

NoResult == [op |-> "", args |-> [key |-> PyNone], out |-> Ok(PyNone)]

Classes == {"Row", "LegacyRow"}

RawValues == {PyInt(1), PyInt(2)}

TuplesOver(S) == UNION {[1..n -> S] : n \in 0..MaxCols}

\* a second metadata object, for rows given another result's key map and
\* for states that refer to another result
OtherMetadata == MakeMetadata(<<"b", "a">>, "named")

IntKeys == {PyInt(k) : k \in (0 - MaxCols - 1)..(MaxCols + 1)}

NameKeys == {PyStr(c) : c \in {"a", "b", "A", "z"}}

ColKeys == {PyCol("a"), PyCol("z")}

SliceKeys == {PySlice(a, b) : a \in {0 - 1, 0, 1}, b \in {0 - 1, 1, MaxCols + 1}}

LookupKeys == IntKeys \cup NameKeys \cup ColKeys \cup SliceKeys

StateTuples == {<<>>, <<PyInt(2)>>, <<PyInt(2), PyInt(1)>>}

MakeState(has, parent, data) ==
    [has |-> has,
     _parent |-> IF "_parent" \in has THEN parent ELSE MakeMetadata(<<>>, "null"),
     _data |-> IF "_data" \in has THEN data ELSE <<>>]

Called(op, args, out) ==
    /\ result' = [op |-> op, args |-> args, out |-> out]
    /\ pc' = "returned"

\* an operation that reads the row
Reads(op, key, out) ==
    /\ pc = "idle"
    /\ row.cls # "None"
    /\ Called(op, [key |-> key], out)
    /\ UNCHANGED row

Init ==
    /\ row = NoRow
    /\ pc = "idle"
    /\ result = NoResult

Construct ==
    /\ pc = "idle"
    /\ row.cls = "None"
    /\ \E cls \in Classes, parent \in Metadatas,
          processors \in TuplesOver(Processors), data \in TuplesOver(RawValues) :
         \E keymap \in {parent._keymap, OtherMetadata._keymap} :
           /\ row' = BaseRow__init__(cls, parent, processors, keymap, data)
           /\ Called("BaseRow.__init__",
                     [parent |-> parent, processors |-> processors,
                      keymap |-> keymap, data |-> data],
                     Ok(PyNone))

Reconstruct ==
    /\ pc = "idle"
    /\ row.cls = "None"
    /\ \E cls \in Classes, has \in SUBSET {"_parent", "_data"},
          parent \in Metadatas, data \in StateTuples :
         LET state == MakeState(has, parent, data)
             o == rowproxy_reconstructor(cls, state)
         IN  /\ row' = IF o.ok THEN o.val ELSE row
             /\ Called("rowproxy_reconstructor", [cls |-> cls, state |-> state], o)

SetState ==
    /\ pc = "idle"
    /\ row.cls # "None"
    /\ \E has \in SUBSET {"_parent", "_data"},
          parent \in {row._parent, OtherMetadata}, data \in StateTuples :
         LET state == MakeState(has, parent, data)
             set == Row__setstate__(row, state)
         IN  /\ row' = set.obj
             /\ Called("Row.__setstate__", [state |-> state], set.out)

Return ==
    /\ pc = "returned"
    /\ pc' = "idle"
    /\ result' = NoResult
    /\ UNCHANGED row

Release ==
    /\ pc = "idle"
    /\ row.cls # "None"
    /\ row' = NoRow
    /\ UNCHANGED <<pc, result>>

Reduce == Reads("BaseRow.__reduce__", PyNone, Ok(BaseRow__reduce__(row)))

\* pickle round trip: the reconstructor applied to what __reduce__ gives
RoundTrip ==
    LET red == BaseRow__reduce__(row)
    IN  Reads("roundtrip", PyNone, rowproxy_reconstructor(red.cls, red.state))

\* a mapping lookup on the row the round trip gives
RoundTripGetItem ==
    \E key \in LookupKeys :
      LET red == BaseRow__reduce__(row)
          copy == rowproxy_reconstructor(red.cls, red.state)
      IN  Reads("roundtrip.mapping.__getitem__", key,
                IF copy.ok THEN RowMapping__getitem__(Row_mapping(copy.val), key) ELSE copy)

GetItemOp ==
    \E key \in LookupKeys :
      Reads(IF row.cls = "LegacyRow" THEN "LegacyRow.__getitem__" ELSE "Row.__getitem__",
            key, GetItem(row, key))

GetAttr == \E name \in NameKeys : Reads("BaseRow.__getattr__", name, BaseRow__getattr__(row, name))

ContainsOp ==
    \E key \in IntKeys \cup NameKeys \cup ColKeys :
      Reads(IF row.cls = "LegacyRow" THEN "LegacyRow.__contains__" ELSE "Row.__contains__",
            key, Contains(row, key))

LenOp == Reads("BaseRow.__len__", PyNone, Ok(BaseRow__len__(row)))

IterOp == Reads("BaseRow.__iter__", PyNone, Ok(BaseRow__iter__(row)))

HashOp == Reads("BaseRow.__hash__", PyNone, Ok(BaseRow__hash__(row)))

Compare ==
    \E op \in {"lt", "le", "ge", "gt", "eq", "ne"}, t \in StateTuples, isrow \in BOOLEAN :
      LET other == [isrow |-> isrow, data |-> IF isrow THEN <<>> ELSE t,
                    row |-> IF isrow THEN [row EXCEPT !._data = t] ELSE NoRow]
      IN  /\ Reads("Row._op", PyNone, Row_op(row, other, op))

KeysOp == Reads("Row.keys", PyNone, Row_keys(row))

FieldsOp == Reads("Row._fields", PyNone, Row_fields(row))

AsDict == Reads("Row._asdict", PyNone, Row_asdict(row))

Replace == Reads("Row._replace", PyNone, Row_replace(row))

FieldDefaults == Reads("Row._field_defaults", PyNone, Row_field_defaults(row))

HasKey ==
    \E key \in IntKeys \cup NameKeys \cup ColKeys :
      /\ row.cls = "LegacyRow"
      /\ Reads("LegacyRow.has_key", key, LegacyRow_has_key(row, key))

ItemsOp == row.cls = "LegacyRow" /\ Reads("LegacyRow.items", PyNone, LegacyRow_items(row))

IterKeys == row.cls = "LegacyRow" /\ Reads("LegacyRow.iterkeys", PyNone, LegacyRow_iterkeys(row))

IterValues == row.cls = "LegacyRow" /\ Reads("LegacyRow.itervalues", PyNone, LegacyRow_itervalues(row))

ValuesOp == row.cls = "LegacyRow" /\ Reads("LegacyRow.values", PyNone, LegacyRow_values(row))

MappingGetItem ==
    \E key \in LookupKeys :
      Reads("RowMapping.__getitem__", key, RowMapping__getitem__(Row_mapping(row), key))

MappingIter == Reads("RowMapping.__iter__", PyNone, Ok(RowMapping__iter__(Row_mapping(row))))

MappingLen == Reads("RowMapping.__len__", PyNone, Ok(RowMapping__len__(Row_mapping(row))))

MappingContains ==
    \E key \in IntKeys \cup NameKeys \cup ColKeys :
      Reads("RowMapping.__contains__", key, Ok(RowMapping__contains__(Row_mapping(row), key)))

MappingKeys == Reads("RowMapping.keys", PyNone, Ok(RowMapping_keys(Row_mapping(row))))

MappingItems == Reads("RowMapping.items", PyNone, RowMapping_items(Row_mapping(row)))

MappingValues == Reads("RowMapping.values", PyNone, Ok(RowMapping_values(Row_mapping(row))))

\* the operations of the keys view: length, containment, equality
ViewOp ==
    \E other \in {NotNone(OtherMetadata.keys), NotNone(row._parent.keys)} :
      LET view == RowMapping_keys(Row_mapping(row))
      IN  Reads("ROMappingView", PyNone,
                Ok([len |-> ROMappingView__len__(view),
                    contains |-> ROMappingView__contains__(view, PyStr("a")),
                    eq |-> ROMappingView__eq__(view, other),
                    ne |-> ROMappingView__ne__(view, other)]))

Next ==
    \/ Construct \/ Reconstruct \/ SetState \/ Return \/ Release
    \/ Reduce \/ RoundTrip \/ RoundTripGetItem
    \/ GetItemOp \/ GetAttr \/ ContainsOp \/ LenOp \/ IterOp \/ HashOp \/ Compare
    \/ KeysOp \/ FieldsOp \/ AsDict \/ Replace \/ FieldDefaults
    \/ HasKey \/ ItemsOp \/ IterKeys \/ IterValues \/ ValuesOp
    \/ MappingGetItem \/ MappingIter \/ MappingLen \/ MappingContains
    \/ MappingKeys \/ MappingItems \/ MappingValues \/ ViewOp

Spec == Init /\ [][Next]_vars

\* ================================================================ claims
\* a row as the construction contract describes it: its key map is the
\* metadata's own, and it stores one value per metadata column
WellFormed(r) == r._keymap = r._parent._keymap /\ Len(r._data) = Len(r._parent.keys)

\* the key has a resolution record, in the key map or from the fallback
Resolves(r, key) ==
    key.t # "slice" /\ (key \in DOMAIN r._keymap \/ key \in DOMAIN r._parent._fallback)

RecordOf(r, key) ==
    IF key \in DOMAIN r._keymap THEN r._keymap[key] ELSE r._parent._fallback[key]

KeyedLookups == {"LegacyRow.__getitem__", "RowMapping.__getitem__", "BaseRow.__getattr__"}

NullCount(keys) == Cardinality({k \in 1..Len(keys) : keys[k] = PyNone})

\* C1 (as stated): on a well-formed row of length n, Row[k], LegacyRow[k]
\* and RowMapping[k] with an integer k return the value stored at k when
\* 0 <= k < n and raise IndexError otherwise.
C1_IntegerKeyIsPositional ==
    (/\ result.op \in {"Row.__getitem__", "LegacyRow.__getitem__", "RowMapping.__getitem__"}
     /\ result.args.key.t = "int"
     /\ WellFormed(row))
    => LET k == result.args.key.i
       IN  IF 0 <= k /\ k < Len(row._data)
           THEN result.out.ok /\ result.out.val = row._data[k + 1]
           ELSE ~result.out.ok /\ result.out.exc = "IndexError"

\* C2: a name or column-identity key whose resolution record carries the
\* ambiguous sentinel fails, through RowMapping[key], LegacyRow[key] and
\* attribute access, with AmbiguousColumnName naming the record's literal
\* key; no value is returned.
C2_AmbiguousKeyFails ==
    (/\ result.op \in KeyedLookups
     /\ result.args.key.t \in {"str", "col"}
     /\ Resolves(row, result.args.key)
     /\ RecordOf(row, result.args.key)[1] = PyNone)
    => /\ ~result.out.ok
       /\ result.out.exc = "AmbiguousColumnName"
       /\ result.out.arg = RecordOf(row, result.args.key)[2]

C2_Witness ==
    /\ result.op = "BaseRow.__getattr__"
    /\ result.args.key = PyStr("A")
    /\ Resolves(row, result.args.key)
    /\ RecordOf(row, result.args.key)[1] = PyNone
    /\ result.out.exc = "AmbiguousColumnName"

\* C3 (as stated, on well-formed rows): a keyed lookup signals the
\* compatibility warning exactly when it is LegacyRow[key], the key is not
\* an integer and the resolved record's literal key differs from the key.
C3_WarnsOnlyOnInexactKey ==
    (result.op \in KeyedLookups /\ WellFormed(row))
    => (("nonint" \in result.out.warns)
        <=> (/\ result.op = "LegacyRow.__getitem__"
             /\ result.args.key.t # "int"
             /\ Resolves(row, result.args.key)
             /\ RecordOf(row, result.args.key)[1] # PyNone
             /\ RecordOf(row, result.args.key)[2] # result.args.key))

\* C3 (amended): a keyed lookup signals the compatibility warning exactly
\* when it is LegacyRow[key], the key is not an integer and it resolves to
\* a record with a position, whether or not the record's literal key is the
\* key; RowMapping[key] and attribute access never signal it.
C3_WarnsOnEveryNonIntKey ==
    result.op \in KeyedLookups
    => (("nonint" \in result.out.warns)
        <=> (/\ result.op = "LegacyRow.__getitem__"
             /\ result.args.key.t # "int"
             /\ Resolves(row, result.args.key)
             /\ RecordOf(row, result.args.key)[1] # PyNone))

C3_Witness ==
    /\ result.op = "LegacyRow.__getitem__"
    /\ result.args.key = PyStr("a")
    /\ result.args.key \in DOMAIN row._keymap
    /\ row._keymap[result.args.key][2] = result.args.key
    /\ result.out.ok
    /\ "nonint" \in result.out.warns

\* C4 (as stated): construction from converters, raw values and metadata
\* columns whose numbers are not all equal fails and produces no row.
C4_ConstructFailsFast ==
    (/\ result.op = "BaseRow.__init__"
     /\ \/ Len(result.args.processors) # Len(result.args.data)
        \/ Len(result.args.parent.keys) # Len(result.args.data))
    => ~result.out.ok /\ row.cls = "None"

\* C5 (as stated): the reconstructor returns a row only for a state that
\* holds the metadata reference and as many values as the metadata has
\* columns.
C5_ReconstructValidates ==
    (result.op = "rowproxy_reconstructor" /\ result.out.ok)
    => /\ result.args.state.has = {"_parent", "_data"}
       /\ result.out.val.slots = Slots
       /\ Len(result.args.state._data) = Len(result.args.state._parent.keys)

\* C6: the reconstructor applied to what __reduce__ gives yields a row of
\* the same class with the same values, the same mapping keys in the same
\* order and the same hash.
C6_RoundTrip ==
    result.op = "roundtrip"
    => /\ result.out.ok
       /\ result.out.val.cls = row.cls
       /\ BaseRow__iter__(result.out.val) = BaseRow__iter__(row)
       /\ ROMappingView__iter__(RowMapping_keys(Row_mapping(result.out.val)))
            = ROMappingView__iter__(RowMapping_keys(Row_mapping(row)))
       /\ BaseRow__hash__(result.out.val) = BaseRow__hash__(row)

C6_Witness ==
    /\ result.op = "roundtrip"
    /\ row.cls = "LegacyRow"
    /\ Len(row._data) = 2
    /\ NullCount(row._parent.keys) = 0
    /\ result.out.ok

\* C7 (as stated): RowMapping.__len__ is the number of stored values,
\* iteration and keys() give the non-null column names in order, and so
\* the length exceeds the number of iterated keys by the number of null
\* column names, the two agreeing only when no name is null.
C7_LengthCountsNullNames ==
    /\ result.op = "RowMapping.__len__"
       => /\ result.out.val = Len(row._data)
          /\ result.out.val - Len(RowMapping__iter__(Row_mapping(row)))
               = NullCount(row._parent.keys)
    /\ result.op = "RowMapping.__iter__"
       => /\ result.out.val = NotNone(row._parent.keys)
          /\ (Len(result.out.val) = RowMapping__len__(Row_mapping(row)))
               => NullCount(row._parent.keys) = 0
    /\ result.op = "RowMapping.keys"
       => result.out.val._items = NotNone(row._parent.keys)

\* C8: on a LegacyRow, keys(), values() and items() give the lists of the
\* mapping view's keys(), values() and items(), and items() fails as the
\* mapping view's items() fails.
C8_LegacyAccessorsMatchMapping ==
    /\ (result.op = "Row.keys" /\ row.cls = "LegacyRow")
       => /\ result.out.ok
          /\ result.out.val = ROMappingView__iter__(RowMapping_keys(Row_mapping(row)))
    /\ result.op = "LegacyRow.values"
       => /\ result.out.ok
          /\ result.out.val = ROMappingView__iter__(RowMapping_values(Row_mapping(row)))
    /\ result.op = "LegacyRow.items"
       => LET items == RowMapping_items(Row_mapping(row))
          IN  /\ result.out.ok = items.ok
              /\ IF items.ok
                 THEN result.out.val = ROMappingView__iter__(items.val)
                 ELSE result.out.exc = items.exc /\ result.out.arg = items.arg

C8_Witness ==
    /\ result.op = "LegacyRow.items"
    /\ result.out.ok
    /\ Len(result.out.val) = 2

C10_RoundTripKeepsLookup ==
    (/\ result.op = "roundtrip.mapping.__getitem__"
     /\ row._keymap = row._parent._keymap)
    => SameOutcome(result.out, RowMapping__getitem__(Row_mapping(row), result.args.key))

C10_Witness ==
    /\ result.op = "roundtrip.mapping.__getitem__"
    /\ row._keymap = row._parent._keymap
    /\ result.args.key = PyStr("a")
    /\ result.out.ok

====
